---------------------------- MODULE Spec2Model ----------------------------
(***************************************************************************)
(* Ingestion / reconciliation pipeline of the MLS listings service:        *)
(* src/automated_downloader.py (MLSPinDownloader.download_idx_files and     *)
(* ListingProcessor) writing to the listings table created by              *)
(* src/test.py init_db; src/test.py upsert_rows; the scheduler of          *)
(* src/scheduler.py; GET /listings/{listing_id} of src/main.py.            *)
(*                                                                         *)
(* Strings are sequences of one-character strings so that str.strip() is   *)
(* computed.  Timestamps are the values of a logical clock; isoformat()    *)
(* turns one into a string.  The md5 digest of a file is taken to be       *)
(* collision free on the file contents of the model.                       *)
(***************************************************************************)
EXTENDS Integers, Sequences, FiniteSets, TLC

VARIABLES
    files,              \* download_dir: file name -> content on disk, or Absent
    downloaded_files,   \* list returned by download_idx_files, argument of process_files
    processed_log,      \* processed_files.json: file name -> entry, or NoEntry
    store,              \* rows of the listings table
    clock,              \* wall clock read by datetime.now() and the store's now()
    pc,                 \* position of the run
    existing_listings,  \* process_files: snapshot read by get_existing_listings
    all_new_listings,   \* process_files: records parsed so far in the run
    changes,            \* process_files: result of detect_changes
    results,            \* process_files: the results dictionary
    idx,                \* process_files: position of the loop over file_paths
    marked_content,     \* history: content each file had when it was last marked processed
    skipped,            \* history: files skipped as unchanged in the current run
    log_at_start,       \* history: processed_log when the current run began
    run_failed,         \* history: the write of the current run raised
    failed_files,       \* history: files of the current run whose loop body raised
    writer_hist,        \* history: store before the Writer was invoked, operations run before it raised
    is_running,         \* MLSScheduler.is_running
    jobs,               \* _scheduled_job coroutines in progress, by what started them
    stats,              \* MLSScheduler.stats
    last_run_status,    \* MLSScheduler.last_run_status
    last_outcome,       \* history: how the body of the run recorded last ended
    scheduler,          \* MLSScheduler.scheduler: the AsyncIOScheduler, or NoScheduler
    live_schedulers,    \* history: AsyncIOScheduler objects started and not shut down
    returned,           \* history: how the last call of start, stop or run_now ended
    report,             \* what the last run of a maintenance script or of etl_job did
    source_db,          \* migrate_to_railway: the rows of the table in the source database
    target_db,          \* migrate_to_railway: the table in the target database
    relations,          \* committed rows of crm_contact_neighborhoods
    txns,               \* the open transactions of the neighborhood endpoints
    runs                \* overlapping runs of process_files: position, snapshot, records

writerVars == <<writer_hist>>
schedVars == <<is_running, jobs, stats, last_run_status, last_outcome, scheduler,
               live_schedulers, returned>>
concVars == <<runs>>
toolVars == <<report, source_db, target_db, relations, txns>>

vars == <<files, downloaded_files, processed_log, store, clock, pc,
          existing_listings, all_new_listings, changes, results, idx,
          marked_content, skipped, log_at_start, run_failed, failed_files,
          writerVars, schedVars, concVars, toolVars>>

----------------------------------------------------------------------------
(* Bounds *)

MaxClock == 3    \* ingestion cycles of a behaviour
MaxNew == 2      \* records handed to detect_changes as an input
MaxBatch == 1    \* length of the create and update lists handed to the Writer as an input
MaxRows == 3     \* rows handed to upsert_rows as an input
MaxBatchSize == 3  \* values of BATCH_SIZE
MaxRuns == 4     \* executions of _scheduled_job started in a behaviour
MaxJobs == 2     \* executions of _scheduled_job short of, and beyond, a full history
MaxEtlRuns == 2  \* calls of etl_job and of main in a behaviour
MaxDupRows == 3  \* rows of the table handed to the scripts that remove duplicates
MaxMigrations == 2  \* runs of migrate_data in a behaviour

----------------------------------------------------------------------------
(* Strings *)

Absent  == [present |-> FALSE, rows |-> <<>>]
NoEntry == [none |-> TRUE]
None    == <<"<None>">>

\* str(x): None prints as the text None, a string is itself
RECURSIVE LStrip(_)
LStrip(s) == IF s # <<>> /\ Head(s) = " " THEN LStrip(Tail(s)) ELSE s

RECURSIVE RStrip(_)
RStrip(s) == IF s # <<>> /\ s[Len(s)] = " " THEN RStrip(SubSeq(s, 1, Len(s) - 1)) ELSE s

strip(s) == RStrip(LStrip(s))

str(x) == IF x = None THEN <<"N", "o", "n", "e">> ELSE x

\* datetime.isoformat()
isoformat(t) == <<ToString(t)>>

SOLD == <<"S", "O", "L", "D">>


----------------------------------------------------------------------------
(* Feed files *)

\* IDX_FILES, in download order (two of the eight property types)
IDX_FILES == <<"idx_sf.txt", "idx_mf.txt">>

Files == {IDX_FILES[i] : i \in 1..Len(IDX_FILES)}

K1 == <<"7", "1">>
K2 == <<"7", "2">>
K3 == <<"7", "3">>

\* one data line of a pipe-delimited file, as csv.DictReader returns it
Row(list_no, list_price, status) ==
    [LIST_NO |-> list_no, LIST_PRICE |-> list_price, STATUS |-> status]

\* contents the MLS server can deliver for a file (the header line is implied)
FileContents ==
    { <<Row(K1, <<"1", "0", "0">>, <<"A">>)>>,
      <<Row(K1, <<"1", "5", "0">>, <<"A">>), Row(<<>>, <<"1", "0", "0">>, <<"A">>)>>,
      <<Row(K2, <<"1", "0", "0">>, <<"A">>)>>,
      <<Row(K2, <<"1", "0", "0">>, <<"A">>), Row(K2, <<"1", "5", "0">>, <<"A">>),
        Row(None, <<"1", "0", "0">>, <<"A">>)>> }

\* a file of the download directory holding these data lines
File(rows) == [present |-> TRUE, rows |-> rows]

\* hashlib.md5(f.read()).hexdigest()
get_file_hash(file) == <<"md5", file.rows>>

----------------------------------------------------------------------------
(* Python dictionaries and JSONB documents: functions on strings *)

Get(d, k, default) == IF k \in DOMAIN d THEN d[k] ELSE default

\* jsonb || jsonb, dict.update
Merge(a, b) == [k \in DOMAIN a \cup DOMAIN b |-> IF k \in DOMAIN b THEN b[k] ELSE a[k]]

\* the listing dictionary parse_idx_file builds from one row
Listing(row, file_name, now) ==
    [ListingKey |-> row.LIST_NO,
     ListingID |-> row.LIST_NO,
     ListPrice |-> row.LIST_PRICE,
     ListingStatus |-> row.STATUS,
     ModificationTimestamp |-> isoformat(now)]
    @@ ("_raw_data" :> row)
    @@ ("_file_source" :> file_name)

RECURSIVE parse_rows_from(_, _, _)
parse_rows_from(content, file_name, now) ==
    IF content = <<>> THEN <<>>
    ELSE LET row == Head(content)
             rest == parse_rows_from(Tail(content), file_name, now)
         IN IF row.LIST_NO = <<>> \/ row.LIST_NO = None
            THEN rest
            ELSE <<Listing(row, file_name, now)>> \o rest

\* the loop over the rows without the test of LIST_NO
parse_idx_file_keep_all(file_name, now) ==
    [i \in 1..Len(files[file_name].rows) |-> Listing(files[file_name].rows[i], file_name, now)]

parse_idx_file(file_name, now) == parse_rows_from(files[file_name].rows, file_name, now)

----------------------------------------------------------------------------
(* Change Classifier *)

key_fields == {"ListPrice", "ListingStatus", "ModificationTimestamp"}

\* the comparison without the strip() calls
has_changes_unstripped(listing, existing_data) ==
    \E field \in key_fields :
        str(Get(listing, field, <<>>)) # str(Get(existing_data, field, <<>>))

has_changes(listing, existing_data) ==
    \E field \in key_fields :
        strip(str(Get(listing, field, <<>>))) # strip(str(Get(existing_data, field, <<>>)))

SeqKeys(listings) == {listings[i]["ListingKey"] : i \in 1..Len(listings)}

is_create(listing, existing) == listing["ListingKey"] \notin DOMAIN existing

\* every record whose identifier is stored is an update, changed or not
is_update_unconditional(listing, existing) == listing["ListingKey"] \in DOMAIN existing

is_update(listing, existing) ==
    /\ listing["ListingKey"] \in DOMAIN existing
    /\ has_changes(listing, existing[listing["ListingKey"]].data)

detect_changes(new_listings, existing) ==
    [create |-> SelectSeq(new_listings, LAMBDA l : is_create(l, existing)),
     update |-> SelectSeq(new_listings, LAMBDA l : is_update(l, existing)),
     mark_sold |-> DOMAIN existing \ SeqKeys(new_listings)]

NoChanges == [create |-> <<>>, update |-> <<>>, mark_sold |-> {}]


----------------------------------------------------------------------------
(* The listings table and the Reconciliation Writer *)

\* columns of a row; the other promoted TEXT columns (streetname, city,
\* postalcode, ...) are copied from the listing exactly as listprice is
NewRow(st, listing, now) ==
    [id |-> Cardinality(st) + 1,
     listing_key |-> listing["ListingKey"],
     listingid |-> Get(listing, "ListingID", None),
     listprice |-> Get(listing, "ListPrice", None),
     listingstatus |-> Get(listing, "ListingStatus", None),
     modificationtimestamp |-> Get(listing, "ModificationTimestamp", None),
     data |-> listing,
     updated_at |-> now]

\* INSERT ... ON CONFLICT (listing_key) DO NOTHING
insert_listing_do_nothing(st, listing, now) ==
    IF \E r \in st : r.listing_key = listing["ListingKey"]
    THEN st
    ELSE st \cup {NewRow(st, listing, now)}

\* a plain INSERT, without the ON CONFLICT clause
insert_listing_plain(st, listing, now) == st \cup {NewRow(st, listing, now)}

\* INSERT ... ON CONFLICT (listing_key) DO UPDATE SET ... , for one listing
insert_listing(st, listing, now) ==
    IF \E r \in st : r.listing_key = listing["ListingKey"]
    THEN { IF r.listing_key = listing["ListingKey"]
           THEN [NewRow(st, listing, now) EXCEPT !.id = r.id]
           ELSE r : r \in st }
    ELSE st \cup {NewRow(st, listing, now)}

\* UPDATE listings SET ... WHERE listing_key = %s, for one listing
\* (first, without listingstatus in the SET list)
update_listing_keep_status(st, listing, now) ==
    { IF r.listing_key = listing["ListingKey"]
      THEN [r EXCEPT !.listprice = Get(listing, "ListPrice", None),
                     !.modificationtimestamp = Get(listing, "ModificationTimestamp", None),
                     !.data = listing,
                     !.updated_at = now]
      ELSE r : r \in st }

update_listing(st, listing, now) ==
    { IF r.listing_key = listing["ListingKey"]
      THEN [r EXCEPT !.listprice = Get(listing, "ListPrice", None),
                     !.listingstatus = Get(listing, "ListingStatus", None),
                     !.modificationtimestamp = Get(listing, "ModificationTimestamp", None),
                     !.data = listing,
                     !.updated_at = now]
      ELSE r : r \in st }

\* data = %s instead of data = data || %s
mark_listing_sold_overwrite(st, key, now) ==
    { IF r.listing_key = key
      THEN [r EXCEPT !.listingstatus = SOLD,
                     !.data = [auto_marked_sold |-> TRUE, marked_sold_at |-> isoformat(now)],
                     !.updated_at = now]
      ELSE r : r \in st }

\* UPDATE listings SET listingstatus = 'SOLD', data = data || %s, for one key
mark_listing_sold(st, key, now) ==
    { IF r.listing_key = key
      THEN [r EXCEPT !.listingstatus = SOLD,
                     !.data = Merge(r.data, [auto_marked_sold |-> TRUE,
                                             marked_sold_at |-> isoformat(now)]),
                     !.updated_at = now]
      ELSE r : r \in st }

RECURSIVE insert_listings(_, _, _)
insert_listings(st, listings, now) ==
    IF listings = <<>> THEN st
    ELSE insert_listings(insert_listing(st, Head(listings), now), Tail(listings), now)

RECURSIVE update_listings(_, _, _)
update_listings(st, listings, now) ==
    IF listings = <<>> THEN st
    ELSE update_listings(update_listing(st, Head(listings), now), Tail(listings), now)

RECURSIVE mark_listings_sold(_, _, _)
mark_listings_sold(st, listing_keys, now) ==
    IF listing_keys = {} THEN st
    ELSE LET key == CHOOSE k \in listing_keys : TRUE
         IN mark_listings_sold(mark_listing_sold(st, key, now), listing_keys \ {key}, now)

execute_crud_operations(st, ch, now) ==
    mark_listings_sold(update_listings(insert_listings(st, ch.create, now), ch.update, now),
                       ch.mark_sold, now)

\* the statements execute_crud_operations sends, in order
RECURSIVE SetToSeq(_)
SetToSeq(S) ==
    IF S = {} THEN <<>>
    ELSE LET x == CHOOSE y \in S : TRUE IN <<x>> \o SetToSeq(S \ {x})

Operations(ch) ==
    [i \in 1..Len(ch.create) |-> [op |-> "insert", arg |-> ch.create[i]]]
    \o [i \in 1..Len(ch.update) |-> [op |-> "update", arg |-> ch.update[i]]]
    \o [i \in 1..Cardinality(ch.mark_sold) |->
           [op |-> "mark_sold", arg |-> SetToSeq(ch.mark_sold)[i]]]

RECURSIVE apply_operations(_, _, _)
apply_operations(st, ops, now) ==
    IF ops = <<>> THEN st
    ELSE LET o == Head(ops)
             next == CASE o.op = "insert" -> insert_listing(st, o.arg, now)
                       [] o.op = "update" -> update_listing(st, o.arg, now)
                       [] o.op = "mark_sold" -> mark_listing_sold(st, o.arg, now)
         IN apply_operations(next, Tail(ops), now)

\* the rows as the cursor sees them after the first k statements
execute_partial(st, ch, now, k) == apply_operations(st, SubSeq(Operations(ch), 1, k), now)

\* a connection in autocommit mode: every statement is committed at once
with_conn_autocommit(st, inside, raised) == inside

\* with self.get_conn() as conn: commit when the block ends, rollback when
\* it raises
with_conn(st, inside, raised) == IF raised THEN st ELSE inside

----------------------------------------------------------------------------
(* src/test.py: upsert_rows *)

\* parse_rows: the row itself, with the mapped fields added
parse_row(row, now) ==
    [ListingKey |-> row.LIST_NO,
     ListingID |-> row.LIST_NO,
     ListPrice |-> row.LIST_PRICE,
     ListingStatus |-> row.STATUS,
     ModificationTimestamp |-> isoformat(now)]
    @@ row

valid_rows(rows) == SelectSeq(rows, LAMBDA r : Get(r, "ListingKey", None) \notin {None, <<>>})

\* the loop with seen_keys: the first row of every ListingKey
RECURSIVE unique_records(_, _)
unique_records(rows, seen_keys) ==
    IF rows = <<>> THEN <<>>
    ELSE IF Head(rows)["ListingKey"] \in seen_keys
         THEN unique_records(Tail(rows), seen_keys)
         ELSE <<Head(rows)>>
              \o unique_records(Tail(rows), seen_keys \cup {Head(rows)["ListingKey"]})

\* records[i : i + BATCH_SIZE - 1]
batch_slice_short(records, i, batch_size) ==
    SubSeq(records, i + 1, IF i + batch_size - 1 < Len(records) THEN i + batch_size - 1
                           ELSE Len(records))

\* records[i : i + BATCH_SIZE]
batch_slice(records, i, batch_size) ==
    SubSeq(records, i + 1, IF i + batch_size < Len(records) THEN i + batch_size
                           ELSE Len(records))

\* for i in range(0, len(records), BATCH_SIZE): execute_values(cur, query, batch)
RECURSIVE upsert_batches(_, _, _, _, _)
upsert_batches(st, records, i, batch_size, now) ==
    IF i >= Len(records) THEN st
    ELSE upsert_batches(insert_listings(st, batch_slice(records, i, batch_size), now),
                        records, i + batch_size, batch_size, now)

upsert_rows(st, rows, batch_size, now) ==
    LET records == unique_records(valid_rows(rows), {})
    IN IF records = <<>> THEN st ELSE upsert_batches(st, records, 0, batch_size, now)

\* SELECT listing_key, data, updated_at FROM listings, into a dictionary
get_existing_listings(st) ==
    [key \in {r.listing_key : r \in st} |->
        LET row == CHOOSE r \in st :
                       /\ r.listing_key = key
                       /\ \A q \in st : q.listing_key = key => q.id <= r.id
        IN [data |-> row.data, updated_at |-> row.updated_at]]


----------------------------------------------------------------------------
(* Change-Tracking Log *)

\* content of processed_files.json that json.load rejects (zero bytes, truncated)
Unparseable == [unparseable |-> TRUE]

EmptyLog == [f \in Files |-> NoEntry]
UnparseableLog == [f \in Files |-> Unparseable]

\* load_processed_files_log returns: {} when the file is missing, json.load
\* of it otherwise, which raises on content that is not JSON
load_processed_files_log_raises == processed_log = UnparseableLog

\* a file counts as unchanged as soon as the log has an entry for its name
has_file_changed_by_name(file_name) == "hash" \notin DOMAIN processed_log[file_name]

has_file_changed(file_name) ==
    LET current_hash == get_file_hash(files[file_name])
        last_hash == Get(processed_log[file_name], "hash", None)
    IN current_hash # last_hash

mark_file_processed(file_name, now) ==
    [processed_log EXCEPT ![file_name] =
        [hash |-> get_file_hash(files[file_name]), processed_at |-> isoformat(now)]]

----------------------------------------------------------------------------
(* One ingestion cycle: automated_download_and_process *)

NoScheduler == [none |-> TRUE]

\* AsyncIOScheduler() with the listener and the two jobs added
NewScheduler(started) ==
    [job_ids |-> {"mls_download_job", "daily_cleanup_job"}, started |-> started]

\* what a call of op returned or logged; flip tells one call from the next
Returned(op, result) == [op |-> op, result |-> result, flip |-> ~returned.flip]

\* MLSScheduler.__init__
SchedulerNew ==
    /\ is_running = FALSE
    /\ scheduler = NoScheduler
    /\ live_schedulers = 0
    /\ returned = [op |-> "__init__", result |-> "constructed", flip |-> FALSE]
    /\ jobs = [interval |-> 0, manual |-> 0]
    /\ stats = [total_runs |-> 0, successful_runs |-> 0, failed_runs |-> 0, run_history |-> <<>>]
    /\ last_run_status = None
    /\ last_outcome = None

\* no run of process_files in progress besides the one of pc
NoRuns == runs = <<>>

NoReport == [op |-> "none"]

\* no maintenance script has run and no request of the neighborhood
\* endpoints is open
ToolsNew ==
    /\ report = NoReport
    /\ source_db = <<>>
    /\ target_db = <<>>
    /\ relations = {}
    /\ txns = <<>>

NoWriterHist == [before |-> {}, failed_after |-> 0, batch_size |-> 0]

NoResults ==
    [processed_files |-> 0, skipped_files |-> 0,
     total_changes |-> [create |-> 0, update |-> 0, mark_sold |-> 0],
     errors |-> 0]

Init ==
    /\ files = [f \in Files |-> Absent]
    /\ downloaded_files = <<>>
    /\ processed_log = EmptyLog
    /\ store = {}
    /\ clock = 0
    /\ pc = "idle"
    /\ existing_listings = <<>>
    /\ all_new_listings = <<>>
    /\ changes = NoChanges
    /\ results = NoResults
    /\ idx = 0
    /\ marked_content = [f \in Files |-> Absent]
    /\ skipped = {}
    /\ log_at_start = EmptyLog
    /\ run_failed = FALSE
    /\ failed_files = {}
    /\ SchedulerNew
    /\ NoRuns
    /\ ToolsNew
    /\ writer_hist = NoWriterHist

\* download_idx_files: every file of IDX_FILES whose request succeeds is
\* written to the download directory and appended to the returned list
Download ==
    /\ pc = "idle"
    /\ clock < MaxClock
    /\ \E got \in (SUBSET Files) \ {{}} :
         \E content \in [got -> FileContents] :
            /\ files' = [f \in Files |-> IF f \in got THEN File(content[f]) ELSE files[f]]
            /\ downloaded_files' = SelectSeq(IDX_FILES, LAMBDA f : f \in got)
    /\ clock' = clock + 1
    /\ pc' = "downloaded"
    /\ UNCHANGED <<processed_log, store, existing_listings, all_new_listings, changes,
                   results, idx, marked_content, skipped, log_at_start, run_failed,
                   failed_files>>
    /\ UNCHANGED <<writerVars, schedVars, concVars, toolVars>>

\* login fails or no file could be downloaded: the cycle returns
DownloadNothing ==
    /\ pc = "idle"
    /\ clock < MaxClock
    /\ clock' = clock + 1
    /\ UNCHANGED <<files, downloaded_files, processed_log, store, pc, existing_listings,
                   all_new_listings, changes, results, idx, marked_content, skipped,
                   log_at_start, run_failed,
                   failed_files>>
    /\ UNCHANGED <<writerVars, schedVars, concVars, toolVars>>

\* process_files up to the loop: results initialised, snapshot read
StartProcess ==
    /\ pc = "downloaded"
    /\ results' = NoResults
    /\ existing_listings' = get_existing_listings(store)
    /\ all_new_listings' = <<>>
    /\ changes' = NoChanges
    /\ idx' = 1
    /\ skipped' = {}
    /\ log_at_start' = processed_log
    /\ run_failed' = FALSE
    /\ pc' = "files"
    /\ UNCHANGED <<files, downloaded_files, processed_log, store, clock, marked_content>>
    /\ failed_files' = {}
    /\ UNCHANGED <<writerVars, schedVars, concVars, toolVars>>

\* get_existing_listings raises: the outer handler records the error
SnapshotFails ==
    /\ pc = "downloaded"
    /\ results' = [NoResults EXCEPT !.errors = 1]
    /\ all_new_listings' = <<>>
    /\ changes' = NoChanges
    /\ skipped' = {}
    /\ log_at_start' = processed_log
    /\ run_failed' = TRUE
    /\ pc' = "idle"
    /\ UNCHANGED <<files, downloaded_files, processed_log, store, clock, existing_listings,
                   idx, marked_content>>
    /\ failed_files' = {}
    /\ UNCHANGED <<writerVars, schedVars, concVars, toolVars>>

\* loop body, file unchanged since it was last marked processed
SkipFile ==
    /\ pc = "files"
    /\ idx <= Len(downloaded_files)
    /\ ~load_processed_files_log_raises
    /\ ~has_file_changed(downloaded_files[idx])
    /\ results' = [results EXCEPT !.skipped_files = @ + 1]
    /\ skipped' = skipped \cup {downloaded_files[idx]}
    /\ idx' = idx + 1
    /\ UNCHANGED <<files, downloaded_files, processed_log, store, clock, pc,
                   existing_listings, all_new_listings, changes, marked_content,
                   log_at_start, run_failed,
                   failed_files>>
    /\ UNCHANGED <<writerVars, schedVars, concVars, toolVars>>

\* loop body, file changed: parse, extend, mark processed
ParseFile ==
    /\ pc = "files"
    /\ idx <= Len(downloaded_files)
    /\ ~load_processed_files_log_raises
    /\ has_file_changed(downloaded_files[idx])
    /\ all_new_listings' = all_new_listings \o parse_idx_file(downloaded_files[idx], clock)
    /\ processed_log' = mark_file_processed(downloaded_files[idx], clock)
    /\ marked_content' = [marked_content EXCEPT ![downloaded_files[idx]] = files[downloaded_files[idx]]]
    /\ results' = [results EXCEPT !.processed_files = @ + 1]
    /\ idx' = idx + 1
    /\ UNCHANGED <<files, downloaded_files, store, clock, pc, existing_listings, changes,
                   skipped, log_at_start, run_failed,
                   failed_files>>
    /\ UNCHANGED <<writerVars, schedVars, concVars, toolVars>>

\* loop body, open() of the file raises in get_file_hash: the handler of the
\* loop body records the error and the loop goes on
\* (first, the handler re-raising: the run ends at the first such file)
ReadFailsAborts ==
    /\ pc = "files"
    /\ idx <= Len(downloaded_files)
    /\ results' = [results EXCEPT !.errors = @ + 1]
    /\ failed_files' = failed_files \cup {[file |-> downloaded_files[idx], error |-> "open"]}
    /\ run_failed' = TRUE
    /\ pc' = "idle"
    /\ UNCHANGED <<files, downloaded_files, processed_log, store, clock, idx,
                   existing_listings, all_new_listings, changes, marked_content, skipped,
                   log_at_start>>
    /\ UNCHANGED <<writerVars, schedVars, concVars, toolVars>>

ReadFails ==
    /\ pc = "files"
    /\ idx <= Len(downloaded_files)
    /\ results' = [results EXCEPT !.errors = @ + 1]
    /\ failed_files' = failed_files \cup {[file |-> downloaded_files[idx], error |-> "open"]}
    /\ idx' = idx + 1
    /\ UNCHANGED <<files, downloaded_files, processed_log, store, clock, pc,
                   existing_listings, all_new_listings, changes, marked_content, skipped,
                   log_at_start, run_failed>>
    /\ UNCHANGED <<writerVars, schedVars, concVars, toolVars>>

\* loop body, json.load of the log raises in has_file_changed: same handler
LogLoadFails ==
    /\ pc = "files"
    /\ idx <= Len(downloaded_files)
    /\ load_processed_files_log_raises
    /\ results' = [results EXCEPT !.errors = @ + 1]
    /\ failed_files' = failed_files \cup {[file |-> downloaded_files[idx], error |-> "json"]}
    /\ idx' = idx + 1
    /\ UNCHANGED <<files, downloaded_files, processed_log, store, clock, pc,
                   existing_listings, all_new_listings, changes, marked_content, skipped,
                   log_at_start, run_failed>>
    /\ UNCHANGED <<writerVars, schedVars, concVars, toolVars>>

\* the process is killed while save_processed_files_log rewrites the log:
\* the file opened with mode 'w' is left truncated
CorruptLog ==
    /\ pc = "idle"
    /\ processed_log # UnparseableLog
    /\ processed_log' = UnparseableLog
    /\ UNCHANGED <<files, downloaded_files, store, clock, pc, existing_listings,
                   all_new_listings, changes, results, idx, marked_content, skipped,
                   log_at_start, run_failed, failed_files>>
    /\ UNCHANGED <<writerVars, schedVars, concVars, toolVars>>

\* after the loop, nothing parsed
\* (first, without the test of all_new_listings: the empty record list is
\* classified and the result written)
NoNewListingsClassifies ==
    /\ pc = "files"
    /\ idx > Len(downloaded_files)
    /\ all_new_listings = <<>>
    /\ changes' = detect_changes(all_new_listings, existing_listings)
    /\ store' = execute_crud_operations(store, changes', clock)
    /\ results' = [results EXCEPT !.total_changes =
                       [create |-> Len(changes'.create),
                        update |-> Len(changes'.update),
                        mark_sold |-> Cardinality(changes'.mark_sold)]]
    /\ pc' = "idle"
    /\ UNCHANGED <<files, downloaded_files, processed_log, clock, existing_listings,
                   all_new_listings, idx, marked_content, skipped, log_at_start, run_failed,
                   failed_files>>
    /\ UNCHANGED <<writerVars, schedVars, concVars, toolVars>>

NoNewListings ==
    /\ pc = "files"
    /\ idx > Len(downloaded_files)
    /\ all_new_listings = <<>>
    /\ pc' = "idle"
    /\ UNCHANGED <<files, downloaded_files, processed_log, store, clock, existing_listings,
                   all_new_listings, changes, results, idx, marked_content, skipped,
                   log_at_start, run_failed,
                   failed_files>>
    /\ UNCHANGED <<writerVars, schedVars, concVars, toolVars>>

\* after the loop: detect_changes, execute_crud_operations commits, results updated
ApplyChanges ==
    /\ pc = "files"
    /\ idx > Len(downloaded_files)
    /\ all_new_listings # <<>>
    /\ changes' = detect_changes(all_new_listings, existing_listings)
    /\ store' = execute_crud_operations(store, changes', clock)
    /\ results' = [results EXCEPT !.total_changes =
                       [create |-> Len(changes'.create),
                        update |-> Len(changes'.update),
                        mark_sold |-> Cardinality(changes'.mark_sold)]]
    /\ pc' = "idle"
    /\ UNCHANGED <<files, downloaded_files, processed_log, clock, existing_listings,
                   all_new_listings, idx, marked_content, skipped, log_at_start, run_failed,
                   failed_files>>
    /\ UNCHANGED <<writerVars, schedVars, concVars, toolVars>>

\* after the loop: execute_crud_operations raises, the transaction is rolled
\* back and the outer handler records the error
ApplyFails ==
    /\ pc = "files"
    /\ idx > Len(downloaded_files)
    /\ all_new_listings # <<>>
    /\ changes' = detect_changes(all_new_listings, existing_listings)
    /\ results' = [results EXCEPT !.errors = @ + 1]
    /\ run_failed' = TRUE
    /\ pc' = "idle"
    /\ UNCHANGED <<files, downloaded_files, processed_log, store, clock, existing_listings,
                   all_new_listings, idx, marked_content, skipped, log_at_start,
                   failed_files>>
    /\ UNCHANGED <<writerVars, schedVars, concVars, toolVars>>

Next ==
    \/ Download
    \/ DownloadNothing
    \/ StartProcess
    \/ SnapshotFails
    \/ SkipFile
    \/ ParseFile
    \/ NoNewListings
    \/ ApplyChanges
    \/ ApplyFails

Spec == Init /\ [][Next]_vars

----------------------------------------------------------------------------
(* The ingestion cycle with files that cannot be opened and a log that     *)
(* cannot be loaded.  The wall clock of the first cycle is one tick later, *)
(* so a behaviour has one cycle less.                                      *)

InitFaults ==
    /\ files = [f \in Files |-> Absent]
    /\ downloaded_files = <<>>
    /\ processed_log = EmptyLog
    /\ store = {}
    /\ clock = 1
    /\ pc = "idle"
    /\ existing_listings = <<>>
    /\ all_new_listings = <<>>
    /\ changes = NoChanges
    /\ results = NoResults
    /\ idx = 0
    /\ marked_content = [f \in Files |-> Absent]
    /\ skipped = {}
    /\ log_at_start = EmptyLog
    /\ run_failed = FALSE
    /\ failed_files = {}
    /\ SchedulerNew
    /\ NoRuns
    /\ ToolsNew
    /\ writer_hist = NoWriterHist

NextFaults ==
    \/ Next
    \/ ReadFails
    \/ LogLoadFails
    \/ CorruptLog

SpecFaults == InitFaults /\ [][NextFaults]_vars


----------------------------------------------------------------------------
(* Serving API: GET /listings/{listing_id} *)

\* the fields of the response that depend on the fields of the model
format_listing_data(raw_data) ==
    LET data == raw_data.data
        source_data == IF "_raw_data" \in DOMAIN data THEN data["_raw_data"] ELSE data
    IN [LIST_NO |-> raw_data.listing_key,
        LIST_PRICE |-> Get(source_data, "LIST_PRICE", Get(source_data, "ListPrice", <<>>)),
        STATUS |-> Get(source_data, "STATUS", Get(source_data, "ListingStatus", <<>>))]

\* SELECT listing_key, data, updated_at FROM listings WHERE listing_key = ...
get_listing_by_id(st, listing_id) ==
    LET result == {r \in st : r.listing_key = listing_id}
    IN IF result = {}
       THEN [status_code |-> 404]
       ELSE LET r == CHOOSE q \in result : TRUE
            IN [status_code |-> 200,
                data |-> format_listing_data(
                    [listing_key |-> r.listing_key, data |-> r.data, updated_at |-> r.updated_at])]

----------------------------------------------------------------------------
(* Properties of the pipeline *)

StoredKeys(st) == {r.listing_key : r \in st}

\* the run has just committed its writes
RunCommitted == pc = "idle" /\ ~run_failed /\ results.total_changes # NoResults.total_changes

\* the step is the commit of execute_crud_operations
IsCommitStep == pc = "files" /\ pc' = "idle" /\ all_new_listings # <<>> /\ ~run_failed'

\* identifiers of the rows of a file that carry one
ContentKeys(file) ==
    {file.rows[i].LIST_NO : i \in 1..Len(file.rows)} \ {<<>>, None}

\* files of the current run whose loop body raised
FailedFiles == {e.file : e \in failed_files}

\* files of the current run that went through parse_idx_file
ParsedFiles ==
    ({downloaded_files[i] : i \in 1..Len(downloaded_files)} \ skipped) \ FailedFiles

\* C1: no two rows of the listings store share the same listing_key, after
\* any sequence of reconciliation runs.
C1_Uniqueness ==
    \A r1 \in store : \A r2 \in store : r1.listing_key = r2.listing_key => r1 = r2

\* a run that created the same identifier more than once, with both keys stored
C1_Witness ==
    /\ RunCommitted
    /\ results.total_changes.create = 2
    /\ Cardinality(store) = 2
    /\ \E i \in 1..Len(changes.create) : \E j \in 1..Len(changes.create) :
          i # j /\ changes.create[i]["ListingKey"] = changes.create[j]["ListingKey"]

\* C5: an identifier that occurs more than once in the new record set is
\* classified once, by its last occurrence: the ChangeSet never lists an
\* identifier twice.
C5_LastOccurrenceOnly ==
    \A part \in {changes.create, changes.update} :
        \A i \in 1..Len(part) : \A j \in 1..Len(part) :
            part[i]["ListingKey"] = part[j]["ListingKey"] => i = j

\* C6: no step removes the row of a stored identifier, and the commit of a
\* run sets the status column of every identifier of mark_sold to SOLD, adds
\* auto_marked_sold and marked_sold_at to its document and keeps the value of
\* every other key of the document.
C6_MarkInactiveKeepsRows ==
    [][ /\ StoredKeys(store) \subseteq StoredKeys(store')
        /\ IsCommitStep =>
             \A r \in store : r.listing_key \in changes'.mark_sold =>
                \E q \in store' :
                   /\ q.listing_key = r.listing_key
                   /\ q.listingstatus = SOLD
                   /\ {"auto_marked_sold", "marked_sold_at"} \subseteq DOMAIN q.data
                   /\ \A k \in DOMAIN r.data \ {"auto_marked_sold", "marked_sold_at"} :
                         k \in DOMAIN q.data /\ q.data[k] = r.data[k] ]_vars

\* a committed run marked a stored listing inactive
C6_Witness ==
    /\ RunCommitted
    /\ changes.mark_sold # {}
    /\ \E r \in store : r.listing_key \in changes.mark_sold /\ r.listingstatus = SOLD

C8_SkipIsNoMarkTrigger ==
    RunCommitted =>
        \A f \in skipped : ContentKeys(files[f]) \cap changes.mark_sold = {}

\* C9: a committed run marks a stored listing inactive only if the file the
\* listing was stored from went through the classifier in that run: the
\* listings of a file that was not downloaded are not marked inactive.
C9_UnionOfAllFiles ==
    RunCommitted =>
        \A k \in changes.mark_sold :
            existing_listings[k].data["_file_source"] \in ParsedFiles \cup skipped \cup FailedFiles

\* C10: when the write of a run fails, the log entry of every file is what
\* it was before the run.
C10_LogAfterWrite ==
    run_failed => processed_log = log_at_start

\* C11: a file whose records were parsed by a run that failed afterwards is
\* parsed again by the next run over the same bytes: a run skips a file as
\* unchanged only when every listing of the file is stored.
C11_RetryAfterFailure ==
    pc = "files" => \A f \in skipped : ContentKeys(files[f]) \subseteq StoredKeys(store)

\* identifiers that are empty or missing
NoIds == {<<>>, None}

\* C16: a row whose LIST_NO is empty or missing is discarded by the parser:
\* no parsed record, no entry of create, update or mark_sold and no stored
\* row has an empty or missing identifier.
C16_DroppedRowPolicy ==
    /\ SeqKeys(all_new_listings) \cap NoIds = {}
    /\ SeqKeys(changes.create) \cap NoIds = {}
    /\ SeqKeys(changes.update) \cap NoIds = {}
    /\ changes.mark_sold \cap NoIds = {}
    /\ StoredKeys(store) \cap NoIds = {}

\* a run committed after parsing files with a row without LIST_NO, one
\* empty and one missing
C16_Witness ==
    /\ RunCommitted
    /\ \A id \in NoIds : \E f \in ParsedFiles :
           \E i \in 1..Len(files[f].rows) : files[f].rows[i].LIST_NO = id

\* C20: when a commit marks an active listing inactive, GET
\* /listings/{id} still answers 200 for it and the STATUS of the answer
\* differs from the STATUS answered before the commit.
C20_InactiveDistinguishable ==
    [][IsCommitStep =>
          \A k \in changes'.mark_sold :
              (\E r \in store : r.listing_key = k /\ r.listingstatus # SOLD)
                 => /\ get_listing_by_id(store', k).status_code = 200
                    /\ get_listing_by_id(store', k).data.STATUS
                          # get_listing_by_id(store, k).data.STATUS]_vars

----------------------------------------------------------------------------
(* Properties of the pipeline with faults *)

\* C12: in a run that began with the log missing, empty or unparseable, no
\* file is skipped and no file is dropped because of the log.
C12_LogFallback ==
    (pc = "files" /\ log_at_start \in {EmptyLog, UnparseableLog})
        => /\ skipped = {}
           /\ \A e \in failed_files : e.error # "json"

\* the step is the loop body ending in the handler because open() raised
IsOpenFailure ==
    /\ pc = "files"
    /\ \E f \in Files : [file |-> f, error |-> "open"] \in failed_files' \ failed_files

\* C17: a file that cannot be opened does not end the run: the loop goes on
\* to the next file, the file adds no record and one error is recorded;
\* the listings of every file the run parsed are stored when it commits.
C17_FileFailureIsolation ==
    /\ [][IsOpenFailure =>
             /\ pc' = "files"
             /\ idx' = idx + 1
             /\ all_new_listings' = all_new_listings
             /\ results'.errors = results.errors + 1
             /\ store' = store]_vars
    /\ [](RunCommitted =>
             \A f \in ParsedFiles :
                 /\ ContentKeys(files[f]) \subseteq SeqKeys(all_new_listings)
                 /\ ContentKeys(files[f]) \subseteq StoredKeys(store))

\* a run committed the listings of one file after another file could not
\* be opened
C17_Witness ==
    /\ RunCommitted
    /\ \E e \in failed_files : e.error = "open"
    /\ \E f \in ParsedFiles : ContentKeys(files[f]) # {}


----------------------------------------------------------------------------
(* The Classifier and the Writer as functions of their arguments: the      *)
(* arguments are drawn from bounded sets, then the function is applied.    *)

Keys == {K1, K2}

SeqsUpTo(S, n) == UNION {[1..m -> S] : m \in 0..n}

\* price and status texts of a feed row
FnTexts ==
    { <<<<"1", "0", "0">>, <<"A">>>>,
      <<<<" ", "1", "0", "0", " ">>, <<"A">>>>,
      <<<<"1", "5", "0">>, <<"A">>>>,
      <<<<"1", "0", "0">>, <<"P">>>> }

FnListings ==
    {Listing(Row(k, t[1], t[2]), IDX_FILES[1], ts) : k \in Keys, t \in FnTexts, ts \in 0..1}

FnSnapshots ==
    UNION { {[k \in ks |-> [data |-> d[k], updated_at |-> 0]] :
                d \in {f \in [ks -> FnListings] : \A k \in ks : f[k]["ListingKey"] = k}}
            : ks \in SUBSET Keys }

WriterListings ==
    {Listing(Row(k, p, <<"A">>), IDX_FILES[1], 1) : k \in Keys, p \in {<<"1", "0", "0">>, <<"1", "5", "0">>}}

WriterStores ==
    {mark_listings_sold(insert_listings({}, s, 0), ks, 1) :
        s \in SeqsUpTo(WriterListings, 2), ks \in SUBSET Keys}

\* rows handed to upsert_rows: parsed rows, and one without ListingKey
UpsertRows ==
    {parse_row(Row(k, <<"1", "0", "0">>, <<"A">>), 1) : k \in {K1, K2, K3}}
    \cup {parse_row(Row(K1, <<"1", "5", "0">>, <<"A">>), 1),
          [ListingKey |-> <<>>, ListPrice |-> <<"1", "0", "0">>]}

UpsertStores == {{}, insert_listings({}, <<Listing(Row(K1, <<"1", "0", "0">>, <<"P">>), IDX_FILES[1], 0)>>, 0)}

WriterChangeSets ==
    [create : SeqsUpTo(WriterListings, MaxBatch),
     update : SeqsUpTo(WriterListings, MaxBatch),
     mark_sold : SUBSET Keys]

InitFn ==
    /\ files = [f \in Files |-> Absent]
    /\ downloaded_files = <<>>
    /\ processed_log = EmptyLog
    /\ results = NoResults
    /\ idx = 0
    /\ marked_content = [f \in Files |-> Absent]
    /\ skipped = {}
    /\ log_at_start = EmptyLog
    /\ run_failed = FALSE
    /\ failed_files = {}
    /\ SchedulerNew
    /\ NoRuns
    /\ ToolsNew
    /\ clock = 2
    /\ \/ /\ pc = "fn_classify"
          /\ all_new_listings \in SeqsUpTo(FnListings, MaxNew)
          /\ existing_listings \in FnSnapshots
          /\ store = {}
          /\ changes = NoChanges
       \/ /\ pc = "fn_execute"
          /\ all_new_listings = <<>>
          /\ existing_listings = <<>>
          /\ store \in WriterStores
          /\ changes \in WriterChangeSets
       \/ /\ pc = "fn_upsert"
          /\ all_new_listings \in SeqsUpTo(UpsertRows, MaxRows)
          /\ existing_listings = <<>>
          /\ store \in UpsertStores
          /\ changes = NoChanges
    /\ writer_hist = [NoWriterHist EXCEPT !.before = store]

\* detect_changes(new_listings, existing_listings)
FnClassify ==
    /\ pc = "fn_classify"
    /\ changes' = detect_changes(all_new_listings, existing_listings)
    /\ pc' = "fn_classified"
    /\ UNCHANGED <<files, downloaded_files, processed_log, store, clock, existing_listings,
                   all_new_listings, results, idx, marked_content, skipped, log_at_start,
                   run_failed>>
    /\ UNCHANGED <<failed_files, writerVars, schedVars, concVars, toolVars>>

\* execute_crud_operations(changes)
FnExecute ==
    /\ pc = "fn_execute"
    /\ store' = execute_crud_operations(store, changes, clock)
    /\ clock' = clock + 1
    /\ pc' = "fn_executed"
    /\ UNCHANGED <<files, downloaded_files, processed_log, existing_listings,
                   all_new_listings, changes, results, idx, marked_content, skipped,
                   log_at_start, run_failed>>
    /\ UNCHANGED <<failed_files, writerVars, schedVars, concVars, toolVars>>

\* execute_crud_operations(changes) once more, with the same ChangeSet
FnExecuteAgain ==
    /\ pc = "fn_executed"
    /\ store' = execute_crud_operations(store, changes, clock)
    /\ clock' = clock + 1
    /\ pc' = "fn_reexecuted"
    /\ UNCHANGED <<files, downloaded_files, processed_log, existing_listings,
                   all_new_listings, changes, results, idx, marked_content, skipped,
                   log_at_start, run_failed>>
    /\ UNCHANGED <<failed_files, writerVars, schedVars, concVars, toolVars>>

\* execute_crud_operations(changes) raising at one of its statements
FnExecuteFails ==
    /\ pc = "fn_execute"
    /\ \E k \in 0..(Len(Operations(changes)) - 1) :
          /\ store' = with_conn(store, execute_partial(store, changes, clock, k), TRUE)
          /\ writer_hist' = [writer_hist EXCEPT !.failed_after = k]
    /\ clock' = clock + 1
    /\ pc' = "fn_failed"
    /\ UNCHANGED <<files, downloaded_files, processed_log, existing_listings,
                   all_new_listings, changes, results, idx, marked_content, skipped,
                   log_at_start, run_failed>>
    /\ UNCHANGED <<failed_files, schedVars, concVars, toolVars>>

\* execute_crud_operations(changes) invoked again after it raised
FnRetry ==
    /\ pc = "fn_failed"
    /\ store' = with_conn(store, execute_crud_operations(store, changes, clock), FALSE)
    /\ clock' = clock + 1
    /\ pc' = "fn_retried"
    /\ UNCHANGED <<files, downloaded_files, processed_log, existing_listings,
                   all_new_listings, changes, results, idx, marked_content, skipped,
                   log_at_start, run_failed>>
    /\ UNCHANGED <<failed_files, writerVars, schedVars, concVars, toolVars>>

\* upsert_rows(rows) under some value of BATCH_SIZE
FnUpsert ==
    /\ pc = "fn_upsert"
    /\ \E batch_size \in 1..MaxBatchSize :
          /\ store' = upsert_rows(store, all_new_listings, batch_size, clock)
          /\ writer_hist' = [writer_hist EXCEPT !.batch_size = batch_size]
    /\ clock' = clock + 1
    /\ pc' = "fn_upserted"
    /\ UNCHANGED <<files, downloaded_files, processed_log, existing_listings,
                   all_new_listings, changes, results, idx, marked_content, skipped,
                   log_at_start, run_failed>>
    /\ UNCHANGED <<failed_files, schedVars, concVars, toolVars>>

NextFn == FnClassify \/ FnExecute \/ FnExecuteAgain \/ FnExecuteFails \/ FnRetry \/ FnUpsert

SpecFn == InitFn /\ [][NextFn]_vars


----------------------------------------------------------------------------
(* Properties of the Classifier and the Writer *)

\* the stored listings without the row number and the last-modified time
StoredListings(st) ==
    {[listing_key |-> r.listing_key, listingid |-> r.listingid, listprice |-> r.listprice,
      listingstatus |-> r.listingstatus, modificationtimestamp |-> r.modificationtimestamp,
      data |-> r.data] : r \in st}

\* C2: applying execute_crud_operations a second time with the same
\* ChangeSet leaves the same stored listings (keys, promoted fields,
\* documents) as applying it once.
C2_WriterIdempotent ==
    [][(pc = "fn_executed" /\ pc' = "fn_reexecuted")
          => StoredListings(store') = StoredListings(store)]_vars

\* a text without the blanks before its first and after its last other character
Core(s) ==
    LET inner == {i \in 1..Len(s) : s[i] # " "}
    IN IF inner = {} THEN <<>>
       ELSE SubSeq(s, CHOOSE i \in inner : \A j \in inner : i <= j,
                      CHOOSE i \in inner : \A j \in inner : i >= j)

FieldText(d, field) ==
    IF field \notin DOMAIN d THEN <<>>
    ELSE IF d[field] = None THEN <<"N", "o", "n", "e">> ELSE d[field]

\* one of the three comparison fields differs between a record and a stored document
Differs(listing, doc) ==
    \/ Core(FieldText(listing, "ListPrice")) # Core(FieldText(doc, "ListPrice"))
    \/ Core(FieldText(listing, "ListingStatus")) # Core(FieldText(doc, "ListingStatus"))
    \/ Core(FieldText(listing, "ModificationTimestamp")) # Core(FieldText(doc, "ModificationTimestamp"))

Occurs(listing, listings) == \E i \in 1..Len(listings) : listings[i] = listing

NewKeys == SeqKeys(all_new_listings)

\* the records of the new set that carry an identifier of the snapshot and
\* differ from none of its comparison fields
Unchanged(key) ==
    /\ key \in DOMAIN existing_listings
    /\ \A i \in 1..Len(all_new_listings) :
          all_new_listings[i]["ListingKey"] = key
             => ~Differs(all_new_listings[i], existing_listings[key].data)

\* C3 as stated: every identifier of the new record set is in exactly one of
\* create and update, every identifier of the snapshot that is not in the
\* new set is in mark_sold, and the three sets are pairwise disjoint.
C3_CoverageAsStated ==
    pc = "fn_classified" =>
        /\ \A k \in NewKeys : (k \in SeqKeys(changes.create)) # (k \in SeqKeys(changes.update))
        /\ DOMAIN existing_listings \ NewKeys \subseteq changes.mark_sold
        /\ SeqKeys(changes.create) \cap SeqKeys(changes.update) = {}
        /\ SeqKeys(changes.create) \cap changes.mark_sold = {}
        /\ SeqKeys(changes.update) \cap changes.mark_sold = {}

\* C3 amended: an identifier of the new record set is in exactly one of
\* create and update unless it is in the snapshot and none of its records
\* differs from the stored document in a comparison field, and then it is in
\* neither; every identifier of the snapshot that is not in the new set is in
\* mark_sold, and the three sets are pairwise disjoint.
C3_Coverage ==
    pc = "fn_classified" =>
        /\ \A k \in NewKeys :
              IF Unchanged(k)
              THEN k \notin SeqKeys(changes.create) /\ k \notin SeqKeys(changes.update)
              ELSE (k \in SeqKeys(changes.create)) # (k \in SeqKeys(changes.update))
        /\ DOMAIN existing_listings \ NewKeys \subseteq changes.mark_sold
        /\ SeqKeys(changes.create) \cap SeqKeys(changes.update) = {}
        /\ SeqKeys(changes.create) \cap changes.mark_sold = {}
        /\ SeqKeys(changes.update) \cap changes.mark_sold = {}

\* a classification with an unchanged identifier, an updated one and no create
C3_Witness ==
    /\ pc = "fn_classified"
    /\ \E k \in NewKeys : Unchanged(k)
    /\ changes.update # <<>>
    /\ SeqKeys(changes.update) \cap {k \in NewKeys : Unchanged(k)} = {}

\* C4: a record is in create iff its identifier is absent from the snapshot,
\* and in update iff its identifier is in the snapshot and ListPrice,
\* ListingStatus or ModificationTimestamp differs from the stored document
\* after trimming; a record equal in all three is in neither list.
C4_ClassificationRule ==
    pc = "fn_classified" =>
        \A i \in 1..Len(all_new_listings) :
            LET listing == all_new_listings[i]
                key == listing["ListingKey"]
            IN /\ Occurs(listing, changes.create) <=> key \notin DOMAIN existing_listings
               /\ Occurs(listing, changes.update) <=>
                     (key \in DOMAIN existing_listings
                        /\ Differs(listing, existing_listings[key].data))

\* a record whose price text differs from the stored one only by blanks,
\* classified as neither, next to a record that is updated
C4_Witness ==
    /\ pc = "fn_classified"
    /\ changes.update # <<>>
    /\ \E i \in 1..Len(all_new_listings) :
          LET listing == all_new_listings[i]
              key == listing["ListingKey"]
          IN /\ key \in DOMAIN existing_listings
             /\ listing["ListPrice"] # existing_listings[key].data["ListPrice"]
             /\ ~Occurs(listing, changes.update)
             /\ ~Occurs(listing, changes.create)

\* the step is execute_crud_operations raising
IsWriterFailure == pc = "fn_execute" /\ pc' = "fn_failed"

C15_BatchingNeutral ==
    [][(pc = "fn_upsert" /\ pc' = "fn_upserted") =>
          store' = IF all_new_listings = <<>> THEN store
                   ELSE upsert_rows(store, all_new_listings, Len(all_new_listings), clock)]_vars

\* three records were written in batches of two
C15_Witness ==
    /\ pc = "fn_upserted"
    /\ writer_hist.batch_size = 2
    /\ Len(unique_records(valid_rows(all_new_listings), {})) = 3
    /\ {K1, K2, K3} \subseteq StoredKeys(store)

----------------------------------------------------------------------------
(* src/scheduler.py: MLSScheduler.  The ingestion cycle is a coroutine that *)
(* gives the event loop back while it logs in and downloads, so triggers   *)
(* and requests interleave with it.                                        *)

\* add_job(..., max_instances=1, ...)
max_instances == 1

\* run_history[-50:]
HistoryLimit == 50

\* how the body of automated_download_and_process can end
Outcomes ==
    {"ok", "login_failed", "no_files", "store_unreachable", "no_file_readable", "write_failed"}

\* automated_download_and_process returns on a failed login and on an empty
\* download; process_files catches what its body raises and returns the
\* results; the handler around the whole function logs what is left
automated_download_and_process_raises(outcome) == FALSE

\* _scheduled_job after the await: one entry appended to run_history, the
\* history cut to its last entries on the success path
scheduled_job_stats(st, start_time, raised) ==
    LET history == Append(st.run_history,
                          [timestamp |-> isoformat(start_time),
                           status |-> IF raised THEN "failed" ELSE "success"])
    IN [st EXCEPT !.run_history =
            IF ~raised /\ Len(history) > HistoryLimit
            THEN SubSeq(history, Len(history) - HistoryLimit + 1, Len(history))
            ELSE history]

\* _job_listener on EVENT_JOB_EXECUTED | EVENT_JOB_ERROR
job_listener_stats(st, exception) ==
    IF exception
    THEN [st EXCEPT !.failed_runs = @ + 1, !.total_runs = @ + 1]
    ELSE [st EXCEPT !.successful_runs = @ + 1, !.total_runs = @ + 1]

RunsStarted == Len(stats.run_history) + jobs.interval + jobs.manual

\* MLSScheduler.start: returns at once while is_running; otherwise a new
\* AsyncIOScheduler gets the listener and the two jobs and is started, and
\* what is raised on the way is logged and raised again
start_unguarded ==
    /\ \E raises \in BOOLEAN :
          /\ scheduler' = NewScheduler(~raises)
          /\ live_schedulers' = IF raises THEN live_schedulers ELSE live_schedulers + 1
          /\ is_running' = IF raises THEN is_running ELSE TRUE
          /\ returned' = Returned("start", IF raises THEN "raised" ELSE "started")
    /\ UNCHANGED <<jobs, stats, last_run_status, last_outcome>>
    /\ UNCHANGED <<files, downloaded_files, processed_log, store, clock, pc,
                   existing_listings, all_new_listings, changes, results, idx,
                   marked_content, skipped, log_at_start, run_failed, failed_files,
                   writerVars, concVars, toolVars>>

start ==
    /\ IF is_running
       THEN /\ returned' = Returned("start", "already running")
            /\ UNCHANGED <<is_running, scheduler, live_schedulers>>
       ELSE \E raises \in BOOLEAN :
               /\ scheduler' = NewScheduler(~raises)
               /\ live_schedulers' = IF raises THEN live_schedulers ELSE live_schedulers + 1
               /\ is_running' = IF raises THEN is_running ELSE TRUE
               /\ returned' = Returned("start", IF raises THEN "raised" ELSE "started")
    /\ UNCHANGED <<jobs, stats, last_run_status, last_outcome>>
    /\ UNCHANGED <<files, downloaded_files, processed_log, store, clock, pc,
                   existing_listings, all_new_listings, changes, results, idx,
                   marked_content, skipped, log_at_start, run_failed, failed_files,
                   writerVars, concVars, toolVars>>

\* MLSScheduler.stop: returns at once while not running; otherwise the
\* scheduler is shut down and the reference cleared.  The shutdown cancels
\* the job the executor is running: neither handler of _scheduled_job
\* catches the cancellation, so the job adds nothing to run_history, and
\* the executor may or may not report it to _job_listener as an error.  A
\* run awaited by run_now belongs to the request and goes on.
stop ==
    /\ IF ~is_running
       THEN /\ returned' = Returned("stop", "not running")
            /\ UNCHANGED <<is_running, scheduler, live_schedulers, jobs, stats,
                           last_run_status>>
       ELSE /\ scheduler' = NoScheduler
            /\ live_schedulers' = live_schedulers - 1
            /\ is_running' = FALSE
            /\ returned' = Returned("stop", "stopped")
            /\ jobs' = [jobs EXCEPT !.interval = 0]
            /\ \E reported \in BOOLEAN :
                  IF jobs.interval > 0 /\ reported
                  THEN /\ stats' = job_listener_stats(stats, TRUE)
                       /\ last_run_status' = <<"failed">>
                  ELSE UNCHANGED <<stats, last_run_status>>
    /\ UNCHANGED last_outcome
    /\ UNCHANGED <<files, downloaded_files, processed_log, store, clock, pc,
                   existing_listings, all_new_listings, changes, results, idx,
                   marked_content, skipped, log_at_start, run_failed, failed_files,
                   writerVars, concVars, toolVars>>

\* the interval trigger of mls_download_job fires: the executor starts
\* _scheduled_job unless max_instances of it are running
IntervalTrigger ==
    /\ is_running
    /\ jobs.interval < max_instances
    /\ RunsStarted < MaxRuns
    /\ stats.total_runs < MaxRuns
    /\ jobs' = [jobs EXCEPT !.interval = @ + 1]
    /\ UNCHANGED <<is_running, stats, last_run_status, last_outcome, scheduler,
                   live_schedulers, returned>>
    /\ UNCHANGED <<files, downloaded_files, processed_log, store, clock, pc,
                   existing_listings, all_new_listings, changes, results, idx,
                   marked_content, skipped, log_at_start, run_failed, failed_files,
                   writerVars, concVars, toolVars>>

\* MLSScheduler.run_now up to its await (POST /automation/run): an error
\* is returned while not running
run_now ==
    /\ RunsStarted < MaxRuns
    /\ IF ~is_running
       THEN /\ returned' = Returned("run_now", "error: Scheduler is not running")
            /\ UNCHANGED jobs
       ELSE /\ returned' = Returned("run_now", "awaiting")
            /\ jobs' = [jobs EXCEPT !.manual = @ + 1]
    /\ UNCHANGED <<is_running, stats, last_run_status, last_outcome, scheduler,
                   live_schedulers>>
    /\ UNCHANGED <<files, downloaded_files, processed_log, store, clock, pc,
                   existing_listings, all_new_listings, changes, results, idx,
                   marked_content, skipped, log_at_start, run_failed, failed_files,
                   writerVars, concVars, toolVars>>

\* _scheduled_job started by the trigger ends; the executor then calls
\* _job_listener
IntervalJobDone ==
    /\ jobs.interval > 0
    /\ \E outcome \in Outcomes :
          LET raised == automated_download_and_process_raises(outcome)
          IN /\ stats' = job_listener_stats(scheduled_job_stats(stats, clock, raised), raised)
             /\ last_run_status' = IF raised THEN <<"failed">> ELSE <<"success">>
             /\ last_outcome' = outcome
    /\ jobs' = [jobs EXCEPT !.interval = @ - 1]
    /\ UNCHANGED <<is_running, scheduler, live_schedulers, returned>>
    /\ UNCHANGED <<files, downloaded_files, processed_log, store, clock, pc,
                   existing_listings, all_new_listings, changes, results, idx,
                   marked_content, skipped, log_at_start, run_failed, failed_files,
                   writerVars, concVars, toolVars>>

\* _scheduled_job awaited by run_now ends: no event, no listener
RunNowDone ==
    /\ jobs.manual > 0
    /\ \E outcome \in Outcomes :
          LET raised == automated_download_and_process_raises(outcome)
          IN /\ stats' = scheduled_job_stats(stats, clock, raised)
             /\ last_outcome' = outcome
             /\ returned' = Returned("run_now", IF raised THEN "error: Manual run failed"
                                                  ELSE "success")
    /\ jobs' = [jobs EXCEPT !.manual = @ - 1]
    /\ UNCHANGED <<is_running, last_run_status, scheduler, live_schedulers>>
    /\ UNCHANGED <<files, downloaded_files, processed_log, store, clock, pc,
                   existing_listings, all_new_listings, changes, results, idx,
                   marked_content, skipped, log_at_start, run_failed, failed_files,
                   writerVars, concVars, toolVars>>

NextSched == start \/ stop \/ IntervalTrigger \/ run_now \/ IntervalJobDone \/ RunNowDone

SpecSched == Init /\ [][NextSched]_vars

----------------------------------------------------------------------------
(* Properties of the scheduler *)

\* C13: at every moment at most one execution of the ingestion cycle is in
\* progress, whatever the interleaving of interval triggers and manual
\* triggers.
C13_SingleRun == jobs.interval + jobs.manual <= 1

\* outcomes in which the store cannot be reached at all or no file can be read
RunLevelFailures == {"store_unreachable", "no_file_readable"}

\* C18: an execution in which the store cannot be reached, or no file can
\* be read, is recorded as failed: its run_history entry has status
\* 'failed' and failed_runs counts it; it is never recorded as a success.
C18_RunFailureReported ==
    last_outcome \in RunLevelFailures
        => /\ stats.run_history[Len(stats.run_history)].status = "failed"
           /\ stats.failed_runs > 0

\* a call of op of the scheduler has just returned
IsCall(op) == returned'.flip # returned.flip /\ returned'.op = op

----------------------------------------------------------------------------
(* src/scheduler.py: _scheduled_job taken by itself.  The scheduler has    *)
(* run a number of executions one after the other, all ending well; more   *)
(* executions follow, and the call each of them awaits returns or raises.  *)

\* the variables of the ingestion cycle while no cycle has run
IngestionNew ==
    /\ files = [f \in Files |-> Absent]
    /\ downloaded_files = <<>>
    /\ processed_log = EmptyLog
    /\ existing_listings = <<>>
    /\ all_new_listings = <<>>
    /\ changes = NoChanges
    /\ results = NoResults
    /\ idx = 0
    /\ marked_content = [f \in Files |-> Absent]
    /\ skipped = {}
    /\ log_at_start = EmptyLog
    /\ run_failed = FALSE
    /\ failed_files = {}
    /\ NoRuns
    /\ writer_hist = NoWriterHist

\* run_history after n executions that ended well, the first at time 1
HistoryAfter(n) ==
    LET first == IF n > HistoryLimit THEN n - HistoryLimit + 1 ELSE 1
    IN [i \in 1..(n - first + 1) |->
            [timestamp |-> isoformat(first + i - 1), status |-> "success"]]

InitJob ==
    /\ IngestionNew
    /\ store = {}
    /\ pc = "job"
    /\ is_running = TRUE
    /\ scheduler = NewScheduler(TRUE)
    /\ live_schedulers = 1
    /\ returned = [op |-> "start", result |-> "started", flip |-> TRUE]
    /\ jobs = [interval |-> 0, manual |-> 0]
    /\ last_run_status = None
    /\ last_outcome = None
    /\ \E n \in (HistoryLimit - MaxJobs - 2)..(HistoryLimit + 1) :
          /\ clock = n + 1
          /\ stats = [total_runs |-> 0, successful_runs |-> 0, failed_runs |-> 0,
                      run_history |-> HistoryAfter(n)]
    /\ ToolsNew

\* one execution of _scheduled_job from start_time to its end; the awaited
\* call returns or raises
scheduled_job ==
    /\ pc = "job"
    /\ clock <= HistoryLimit + MaxJobs + 1
    /\ \E raised \in BOOLEAN : stats' = scheduled_job_stats(stats, clock, raised)
    /\ clock' = clock + 1
    /\ UNCHANGED <<files, downloaded_files, processed_log, store, pc,
                   existing_listings, all_new_listings, changes, results, idx,
                   marked_content, skipped, log_at_start, run_failed, failed_files,
                   writerVars, concVars, toolVars>>
    /\ UNCHANGED <<is_running, jobs, last_run_status, last_outcome, scheduler,
                   live_schedulers, returned>>

SpecJob == InitJob /\ [][scheduled_job]_vars

----------------------------------------------------------------------------
(* Two runs of process_files against the same store, from two processes.   *)
(* Each run reads its snapshot, classifies, then sends its statements in   *)
(* one transaction; a statement waits while the row it touches was written *)
(* by the open transaction of the other run, and the store ends a wait     *)
(* cycle by aborting one of the two transactions.                          *)

Procs == {"a", "b"}

Other(p) == CHOOSE q \in Procs : q # p

ConcListings ==
    {Listing(Row(k, price, <<"A">>), IDX_FILES[1], 1) :
        k \in Keys, price \in {<<"1", "0", "0">>, <<"1", "5", "0">>}}

ConcStores == {{}, insert_listings({}, <<Listing(Row(K2, <<"1", "0", "0">>, <<"A">>), IDX_FILES[1], 0)>>, 0)}

NewRun(new_listings) ==
    [pc |-> "start", new |-> new_listings, existing |-> <<>>, changes |-> NoChanges,
     done_ops |-> 0, committed_at |-> 0]

InitConc ==
    /\ files = [f \in Files |-> Absent]
    /\ downloaded_files = <<>>
    /\ processed_log = EmptyLog
    /\ clock = 1
    /\ pc = "idle"
    /\ existing_listings = <<>>
    /\ all_new_listings = <<>>
    /\ changes = NoChanges
    /\ results = NoResults
    /\ idx = 0
    /\ marked_content = [f \in Files |-> Absent]
    /\ skipped = {}
    /\ log_at_start = EmptyLog
    /\ run_failed = FALSE
    /\ failed_files = {}
    /\ SchedulerNew
    /\ writer_hist = NoWriterHist
    /\ store \in ConcStores
    /\ \E new \in [Procs -> SeqsUpTo(ConcListings, MaxNew)] :
          runs = [p \in Procs |-> NewRun(new[p])]
    /\ ToolsNew

\* identifier of the row a statement touches
OpKey(o) == IF o.op = "mark_sold" THEN o.arg ELSE o.arg["ListingKey"]

RunOps(p) == Operations(runs[p].changes)

\* rows written by the open transaction of run p
Locks(p) ==
    IF runs[p].pc = "write"
    THEN {OpKey(RunOps(p)[i]) : i \in 1..runs[p].done_ops}
    ELSE {}

\* run p has a next statement and it has to wait for the other run
Waits(p) ==
    /\ runs[p].pc = "write"
    /\ runs[p].done_ops < Len(RunOps(p))
    /\ OpKey(RunOps(p)[runs[p].done_ops + 1]) \in Locks(Other(p))

\* process_files of run p: get_existing_listings, then detect_changes when
\* there are records
ConcSnapshot(p) ==
    /\ runs[p].pc = "start"
    /\ LET existing == get_existing_listings(store)
       IN runs' = [runs EXCEPT ![p] =
              IF runs[p].new = <<>>
              THEN [@ EXCEPT !.pc = "done", !.existing = existing]
              ELSE [@ EXCEPT !.pc = "write", !.existing = existing,
                             !.changes = detect_changes(runs[p].new, existing)]]
    /\ UNCHANGED <<files, downloaded_files, processed_log, store, clock, pc,
                   existing_listings, all_new_listings, changes, results, idx,
                   marked_content, skipped, log_at_start, run_failed, failed_files,
                   writerVars, schedVars, toolVars>>

\* execute_crud_operations of run p: its next statement
ConcStatement(p) ==
    /\ runs[p].pc = "write"
    /\ runs[p].done_ops < Len(RunOps(p))
    /\ ~Waits(p)
    /\ runs' = [runs EXCEPT ![p].done_ops = @ + 1]
    /\ UNCHANGED <<files, downloaded_files, processed_log, store, clock, pc,
                   existing_listings, all_new_listings, changes, results, idx,
                   marked_content, skipped, log_at_start, run_failed, failed_files,
                   writerVars, schedVars, toolVars>>

\* execute_crud_operations of run p: the with block ends, the transaction
\* is committed
ConcCommit(p) ==
    /\ runs[p].pc = "write"
    /\ runs[p].done_ops = Len(RunOps(p))
    /\ store' = with_conn(store, apply_operations(store, RunOps(p), clock), FALSE)
    /\ clock' = clock + 1
    /\ runs' = [runs EXCEPT ![p].pc = "done", ![p].committed_at = clock]
    /\ UNCHANGED <<files, downloaded_files, processed_log, pc,
                   existing_listings, all_new_listings, changes, results, idx,
                   marked_content, skipped, log_at_start, run_failed, failed_files,
                   writerVars, schedVars, toolVars>>

\* both runs wait for each other: the statement of run p raises, its
\* transaction is rolled back and process_files records the error
ConcDeadlock(p) ==
    /\ Waits(p)
    /\ Waits(Other(p))
    /\ runs' = [runs EXCEPT ![p].pc = "failed", ![p].done_ops = 0]
    /\ UNCHANGED <<files, downloaded_files, processed_log, store, clock, pc,
                   existing_listings, all_new_listings, changes, results, idx,
                   marked_content, skipped, log_at_start, run_failed, failed_files,
                   writerVars, schedVars, toolVars>>

NextConc ==
    \E p \in Procs : ConcSnapshot(p) \/ ConcStatement(p) \/ ConcCommit(p) \/ ConcDeadlock(p)

SpecConc == InitConc /\ [][NextConc]_vars

----------------------------------------------------------------------------
(* Properties of two overlapping runs *)

\* both runs read a snapshot without the identifier and classified it as create
CreatedByBoth(key) ==
    \A p \in Procs :
        /\ runs[p].pc # "start"
        /\ key \notin DOMAIN runs[p].existing
        /\ key \in SeqKeys(runs[p].changes.create)

\* the record of the last insert of the identifier in run p
LastCreate(p, key) ==
    LET create == runs[p].changes.create
        last == CHOOSE i \in 1..Len(create) :
                    /\ create[i]["ListingKey"] = key
                    /\ \A j \in (i + 1)..Len(create) : create[j]["ListingKey"] # key
    IN create[last]

RowsOf(key) == {r \in store : r.listing_key = key}

\* a run that committed, after every other run that committed
LastCommitted(p) ==
    /\ runs[p].pc = "done"
    /\ \A q \in Procs : runs[q].pc = "done" => runs[q].committed_at <= runs[p].committed_at

OppositeOrders ==
    \E p \in Procs :
        LET q == Other(p)
        IN \E i, j \in 1..Len(RunOps(p)) : \E m, n \in 1..Len(RunOps(q)) :
              /\ i < j
              /\ m < n
              /\ OpKey(RunOps(p)[i]) = OpKey(RunOps(q)[n])
              /\ OpKey(RunOps(p)[j]) = OpKey(RunOps(q)[m])
              /\ OpKey(RunOps(p)[i]) # OpKey(RunOps(p)[j])

----------------------------------------------------------------------------
(* Further properties of the pipeline *)

\* price and status of a record equal those of a stored document
SamePriceAndStatus(listing, doc) ==
    /\ Core(FieldText(listing, "ListPrice")) = Core(FieldText(doc, "ListPrice"))
    /\ Core(FieldText(listing, "ListingStatus")) = Core(FieldText(doc, "ListingStatus"))

\* C21: when the rows a run parses for a stored identifier all have the
\* stored price and status, the identifier is not classified as update and
\* its stored row, last-modified value included, is left as it was.
C21_RewriteOnlyOnChange ==
    [][IsCommitStep =>
          \A key \in SeqKeys(all_new_listings) \cap DOMAIN existing_listings :
              (\A i \in 1..Len(all_new_listings) :
                  all_new_listings[i]["ListingKey"] = key
                     => SamePriceAndStatus(all_new_listings[i], existing_listings[key].data))
                 => /\ key \notin SeqKeys(changes'.update)
                    /\ \A r \in store : r.listing_key = key => r \in store']_vars

\* the step ends a run that parsed no record
IsEmptyRunEnd == pc = "files" /\ pc' = "idle" /\ all_new_listings = <<>>

\* C28: a run that parsed no record classifies nothing and writes nothing:
\* the store and the ChangeSet are as the run found them and total_changes
\* is all zero.
C28_EmptyRunGuard ==
    [][IsEmptyRunEnd =>
          /\ store' = store
          /\ changes' = NoChanges
          /\ results'.total_changes = NoResults.total_changes]_vars

\* a run over a store with active listings ended without a parsed record,
\* after skipping a file or failing to open one
C28_Witness ==
    /\ pc = "idle"
    /\ downloaded_files # <<>>
    /\ idx > Len(downloaded_files)
    /\ all_new_listings = <<>>
    /\ ~run_failed
    /\ skipped \cup FailedFiles # {}
    /\ \E r \in store : r.listingstatus # SOLD

\* the last record of the run with this identifier
LastParsed(key) ==
    LET last == CHOOSE i \in 1..Len(all_new_listings) :
                    /\ all_new_listings[i]["ListingKey"] = key
                    /\ \A j \in (i + 1)..Len(all_new_listings) :
                          all_new_listings[j]["ListingKey"] # key
    IN all_new_listings[last]

\* C29: a listing marked SOLD by an earlier run that a later run parses
\* again is classified as update and not as create, and after the commit
\* it has exactly one row, whose status is the status of the feed row.
C29_Reactivation ==
    [][IsCommitStep =>
          \A key \in SeqKeys(all_new_listings) :
              (\E r \in store : r.listing_key = key /\ r.listingstatus = SOLD)
                 => /\ key \in SeqKeys(changes'.update)
                    /\ key \notin SeqKeys(changes'.create)
                    /\ Cardinality({r \in store' : r.listing_key = key}) = 1
                    /\ \A r \in store' :
                          r.listing_key = key
                             => r.listingstatus = LastParsed(key)["ListingStatus"]]_vars

\* a run committed an update of a listing that an earlier run had marked SOLD
C29_Witness ==
    /\ RunCommitted
    /\ \E key \in SeqKeys(changes.update) :
          /\ "auto_marked_sold" \in DOMAIN existing_listings[key].data
          /\ \E r \in store : r.listing_key = key /\ r.listingstatus # SOLD


----------------------------------------------------------------------------
(* src/test.py: etl_job and main.  The table holds sample rows, rows read  *)
(* from the feed, both or none; the feed files hold the rows of            *)
(* all_new_listings.                                                       *)

\* key of a row written by insert_sample_data
KMA == <<"M", "A", "0", "0", "1">>

\* listing_key LIKE 'MA%'
StartsWithMA(key) == Len(key) >= 2 /\ key[1] = "M" /\ key[2] = "A"

\* check_existing_data: the count of the rows whose key is NOT LIKE 'MA%'
\* is compared with 0; False when the query raises
check_existing_data(st, raises) ==
    IF raises THEN FALSE
    ELSE Cardinality({r \in st : r.listing_key # None /\ ~StartsWithMA(r.listing_key)}) > 0

EtlStores ==
    LET sample == <<Listing(Row(KMA, <<"1", "0", "0">>, <<"A">>), IDX_FILES[1], 0)>>
        real == <<Listing(Row(K1, <<"1", "0", "0">>, <<"P">>), IDX_FILES[1], 0)>>
    IN {{}, insert_listings({}, sample, 0), insert_listings({}, real, 0),
        insert_listings({}, sample \o real, 0)}

InitEtl ==
    /\ files = [f \in Files |-> Absent]
    /\ downloaded_files = <<>>
    /\ processed_log = EmptyLog
    /\ existing_listings = <<>>
    /\ changes = NoChanges
    /\ results = NoResults
    /\ idx = 0
    /\ marked_content = [f \in Files |-> Absent]
    /\ skipped = {}
    /\ log_at_start = EmptyLog
    /\ run_failed = FALSE
    /\ failed_files = {}
    /\ NoRuns
    /\ writer_hist = NoWriterHist
    /\ SchedulerNew
    /\ ToolsNew
    /\ clock = 1
    /\ pc = "etl"
    /\ store \in EtlStores
    /\ all_new_listings \in SeqsUpTo(UpsertRows, 2)

\* the body of etl_job after its guard: fetch_listing_file raises when no
\* file has content, and the handler of etl_job logs it; otherwise the rows
\* are parsed and written
etl_load(st, rows, batch_size, now) ==
    IF rows = <<>> THEN st ELSE upsert_rows(st, rows, batch_size, now)

\* etl_job(force_reload)
etl_job ==
    /\ pc = "etl"
    /\ clock <= MaxEtlRuns
    /\ \E force_reload \in BOOLEAN, raises \in BOOLEAN, batch_size \in 1..MaxBatchSize :
          IF ~force_reload /\ check_existing_data(store, raises)
          THEN /\ report' = [op |-> "etl_job", force_reload |-> force_reload,
                             feed_read |-> FALSE]
               /\ UNCHANGED store
          ELSE /\ report' = [op |-> "etl_job", force_reload |-> force_reload,
                             feed_read |-> TRUE]
               /\ store' = etl_load(store, all_new_listings, batch_size, clock)
    /\ clock' = clock + 1
    /\ UNCHANGED <<files, downloaded_files, processed_log, pc, existing_listings,
                   all_new_listings, changes, results, idx, marked_content, skipped,
                   log_at_start, run_failed, failed_files, writerVars, schedVars,
                   concVars>>
    /\ UNCHANGED <<source_db, target_db, relations, txns>>

\* main: etl_job() is called when check_existing_data returns False, and
\* etl_job asks again
main ==
    /\ pc = "etl"
    /\ clock <= MaxEtlRuns
    /\ \E raises_in_main \in BOOLEAN, raises \in BOOLEAN, batch_size \in 1..MaxBatchSize :
          IF check_existing_data(store, raises_in_main) \/ check_existing_data(store, raises)
          THEN /\ report' = [op |-> "main", force_reload |-> FALSE, feed_read |-> FALSE]
               /\ UNCHANGED store
          ELSE /\ report' = [op |-> "main", force_reload |-> FALSE, feed_read |-> TRUE]
               /\ store' = etl_load(store, all_new_listings, batch_size, clock)
    /\ clock' = clock + 1
    /\ UNCHANGED <<files, downloaded_files, processed_log, pc, existing_listings,
                   all_new_listings, changes, results, idx, marked_content, skipped,
                   log_at_start, run_failed, failed_files, writerVars, schedVars,
                   concVars>>
    /\ UNCHANGED <<source_db, target_db, relations, txns>>

SpecEtl == InitEtl /\ [][etl_job \/ main]_vars

HoldsFeedListing(st) == \E r \in st : ~StartsWithMA(r.listing_key)

\* C24: a call of etl_job with force_reload false, made while the table
\* holds a listing whose key does not start with 'MA', reads no feed file
\* and leaves the table as it is; the files are loaded only when no such
\* listing exists or force_reload is true.
C24_EtlSkipGuard ==
    [][(pc = "etl" /\ clock' # clock)
          => /\ (~report'.force_reload /\ HoldsFeedListing(store))
                   => (~report'.feed_read /\ store' = store)
             /\ report'.feed_read
                   => (report'.force_reload \/ ~HoldsFeedListing(store))]_vars


----------------------------------------------------------------------------
(* src/deduplicate_db.py and src/remove_duplicates.py, run against a       *)
(* listings table that holds several rows for a listing_key.               *)

\* a row of the table with the given id, key and updated_at
DupRow(id, key, updated_at) ==
    [NewRow({}, Listing(Row(key, <<"1", "0", "0">>, <<"A">>), IDX_FILES[1], updated_at),
            updated_at) EXCEPT !.id = id]

DupTables ==
    UNION {{{DupRow(i, f[i][1], f[i][2]) : i \in 1..n} : f \in [1..n -> {K1, K2} \X (1..2)]} :
           n \in 0..MaxDupRows}

\* SELECT listing_key, COUNT(*) ... GROUP BY listing_key HAVING COUNT(*) > 1
duplicates(st) ==
    {key \in {r.listing_key : r \in st} :
        Cardinality({r \in st : r.listing_key = key}) > 1}

\* sum(count - 1) over the duplicated keys
total_duplicates(st) ==
    Cardinality({r \in st : r.listing_key \in duplicates(st)}) - Cardinality(duplicates(st))

\* DELETE FROM listings WHERE id NOT IN (SELECT MAX(id) ... GROUP BY listing_key)
delete_not_max_id_keep_min(st) ==
    {r \in st : \A q \in st : q.listing_key = r.listing_key => q.id >= r.id}

delete_not_max_id(st) ==
    {r \in st : \A q \in st : q.listing_key = r.listing_key => q.id <= r.id}

\* DELETE FROM listings WHERE listing_key = %s AND updated_at < (SELECT
\* MAX(updated_at) FROM listings WHERE listing_key = %s)
delete_older(st, key) ==
    {r \in st : ~(/\ r.listing_key = key
                  /\ \E q \in st : q.listing_key = key /\ r.updated_at < q.updated_at)}

\* the loop of remove_duplicates over all_duplicates
RECURSIVE delete_older_all(_, _)
delete_older_all(st, keys) ==
    IF keys = {} THEN st
    ELSE LET key == CHOOSE k \in keys : TRUE
         IN delete_older_all(delete_older(st, key), keys \ {key})

InitDedup ==
    /\ IngestionNew
    /\ SchedulerNew
    /\ source_db = <<>>
    /\ target_db = <<>>
    /\ relations = {}
    /\ txns = <<>>
    /\ clock = 1
    /\ pc = "dedup"
    /\ store \in DupTables
    /\ report = NoReport

\* deduplicate_database: the DELETE and the commit, or an error on the way,
\* the rollback and False
deduplicate_database ==
    /\ pc = "dedup"
    /\ \E raised \in BOOLEAN :
          /\ store' = with_conn(store, delete_not_max_id(store), raised)
          /\ report' = [op |-> "deduplicate_database", returned |-> ~raised,
                        before |-> store,
                        announced |-> total_duplicates(store),
                        deleted_count |-> Cardinality(store) - Cardinality(delete_not_max_id(store))]
    /\ pc' = "dedup_done"
    /\ UNCHANGED <<files, downloaded_files, processed_log, clock, existing_listings,
                   all_new_listings, changes, results, idx, marked_content, skipped,
                   log_at_start, run_failed, failed_files, writerVars, schedVars,
                   concVars>>
    /\ UNCHANGED <<source_db, target_db, relations, txns>>

\* remove_duplicates: the count, the question, and on 'yes' the loop of
\* deletes and the commit
remove_duplicates ==
    /\ pc = "dedup"
    /\ \E response \in {"yes", "no"} :
          LET after == delete_older_all(store, duplicates(store))
          IN /\ store' = IF response = "yes" THEN after ELSE store
             /\ report' = [op |-> "remove_duplicates", returned |-> response = "yes",
                           before |-> store,
                           announced |-> total_duplicates(store),
                           deleted_count |-> IF response = "yes"
                                             THEN Cardinality(store) - Cardinality(after)
                                             ELSE 0]
    /\ pc' = "dedup_done"
    /\ UNCHANGED <<files, downloaded_files, processed_log, clock, existing_listings,
                   all_new_listings, changes, results, idx, marked_content, skipped,
                   log_at_start, run_failed, failed_files, writerVars, schedVars,
                   concVars>>
    /\ UNCHANGED <<source_db, target_db, relations, txns>>

SpecDedup == InitDedup /\ [][deduplicate_database \/ remove_duplicates]_vars

RowsOfKey(st, key) == {r \in st : r.listing_key = key}

\* C25: after a successful deduplicate_database every listing_key that had
\* a row has exactly one row, the one with the greatest id, and the rows of
\* the keys that had no duplicate are unchanged; after a call that met an
\* error the table is as before the call.
C25_KeepGreatestId ==
    (pc = "dedup_done" /\ report.op = "deduplicate_database") =>
        IF report.returned
        THEN /\ \A key \in {r.listing_key : r \in report.before} :
                   /\ Cardinality(RowsOfKey(store, key)) = 1
                   /\ \A r \in RowsOfKey(store, key) :
                         /\ r \in report.before
                         /\ \A q \in RowsOfKey(report.before, key) : q.id <= r.id
             /\ \A r \in report.before :
                   RowsOfKey(report.before, r.listing_key) = {r} => r \in store
             /\ store \subseteq report.before
        ELSE store = report.before

\* a table with one key held twice and one key held once was deduplicated
C25_Witness ==
    /\ pc = "dedup_done"
    /\ report.op = "deduplicate_database"
    /\ report.returned
    /\ Cardinality(report.before) = 3
    /\ Cardinality(store) = 2
    /\ report.deleted_count = 1

\* C26: after a confirmed removal every listing_key that had several rows
\* keeps exactly one row, the most recently updated one, and the number of
\* rows deleted is the announced total, whatever the updated_at values of
\* the duplicate rows.
C26_KeepMostRecent ==
    (pc = "dedup_done" /\ report.op = "remove_duplicates" /\ report.returned) =>
        /\ \A key \in duplicates(report.before) :
              /\ Cardinality(RowsOfKey(store, key)) = 1
              /\ \A r \in RowsOfKey(store, key) :
                    /\ r \in report.before
                    /\ \A q \in RowsOfKey(report.before, key) : q.updated_at <= r.updated_at
        /\ report.deleted_count = report.announced


----------------------------------------------------------------------------
(* src/migrate_to_railway.py: migrate_data, for one table of the source.   *)
(* A table of the target is a record of its unique constraints and its     *)
(* rows; the rows are kept in a sequence, since a table without a          *)
(* constraint can hold a row twice.                                        *)

\* what information_schema.columns tells of the listings table of the source
SourceColumns ==
    <<[column_name |-> "id", data_type |-> "integer", is_nullable |-> "NO",
       column_default |-> "nextval"],
      [column_name |-> "listing_key", data_type |-> "text", is_nullable |-> "YES",
       column_default |-> "NULL"],
      [column_name |-> "data", data_type |-> "jsonb", is_nullable |-> "NO",
       column_default |-> "NULL"]>>

\* the column definition get_table_schema writes for one column
column_def(col) ==
    IF col.column_default = "nextval" /\ col.data_type = "integer"
    THEN [name |-> col.column_name, type |-> "SERIAL", not_null |-> TRUE]
    ELSE [name |-> col.column_name, type |-> col.data_type,
          not_null |-> col.is_nullable = "NO"]

\* get_table_schema: CREATE TABLE IF NOT EXISTS with one definition per
\* column, and no PRIMARY KEY and no UNIQUE clause
get_table_schema(columns) ==
    [columns |-> [i \in 1..Len(columns) |-> column_def(columns[i])],
     unique |-> {}]

NoTable == [exists |-> FALSE, created |-> FALSE, unique |-> {}, rows |-> <<>>]

\* the table as init_db of the application makes it: id is the PRIMARY KEY
AppTable == [exists |-> TRUE, created |-> FALSE, unique |-> {"id"}, rows |-> <<>>]

\* railway_cursor.execute(schema_sql)
create_table_if_not_exists(table, schema) ==
    IF table.exists THEN table
    ELSE [exists |-> TRUE, created |-> TRUE, unique |-> schema.unique, rows |-> <<>>]

\* json.dumps of a dict, and the reading of that text by a jsonb column
json_dumps(value) == <<"json", value>>

jsonb_in(text) == text[2]

\* the row as the adapter sends it: dict values as JSON text
processed_row(row) == [row EXCEPT !.data = json_dumps(row.data)]

\* INSERT ... ON CONFLICT DO NOTHING of one row
insert_on_conflict_do_nothing(table, sent) ==
    LET row == [sent EXCEPT !.data = jsonb_in(sent.data)]
        conflict == \E c \in table.unique :
                       \E i \in 1..Len(table.rows) : table.rows[i][c] = row[c]
    IN IF conflict THEN table ELSE [table EXCEPT !.rows = Append(@, row)]

RECURSIVE executemany(_, _, _)
executemany(table, rows, i) ==
    IF i > Len(rows) THEN table
    ELSE executemany(insert_on_conflict_do_nothing(table, processed_row(rows[i])), rows, i + 1)

SourceRow(id, key) == [id |-> id, listing_key |-> key, data |-> [ListingKey |-> key]]

\* source tables of up to two rows with distinct ids
SourceTables ==
    {<<>>} \cup {<<SourceRow(1, k)>> : k \in Keys}
           \cup {<<SourceRow(1, k), SourceRow(2, q)>> : k \in Keys, q \in Keys}
           \cup {<<SourceRow(2, k), SourceRow(3, q)>> : k \in Keys, q \in Keys}

InitMigrate ==
    /\ IngestionNew
    /\ SchedulerNew
    /\ store = {}
    /\ relations = {}
    /\ txns = <<>>
    /\ clock = 1
    /\ pc = "migrate"
    /\ source_db \in SourceTables
    /\ target_db \in {NoTable, AppTable}
    /\ report = [op |-> "migrate_data", completed |-> 0]

\* migrate_data: the table is created when it is missing, then the rows of
\* the source are inserted and committed; an error rolls the inserts back
\* and is raised again
migrate_data ==
    /\ pc = "migrate"
    /\ clock <= MaxMigrations
    /\ \E raised \in BOOLEAN :
          LET created == create_table_if_not_exists(target_db, get_table_schema(SourceColumns))
          IN /\ target_db' = with_conn(created, executemany(created, source_db, 1), raised)
             /\ report' = IF raised THEN report ELSE [report EXCEPT !.completed = @ + 1]
    /\ clock' = clock + 1
    /\ UNCHANGED <<files, downloaded_files, processed_log, store, pc, existing_listings,
                   all_new_listings, changes, results, idx, marked_content, skipped,
                   log_at_start, run_failed, failed_files, writerVars, schedVars,
                   concVars>>
    /\ UNCHANGED <<source_db, relations, txns>>

SpecMigrate == InitMigrate /\ [][migrate_data]_vars

TimesIn(rows, row) == Cardinality({i \in 1..Len(rows) : rows[i] = row})

\* C27: after any number of runs of migrate_data against the same source,
\* each source row is present exactly once in the target table the script
\* created; a second run adds no row.
C27_RerunAddsNothing ==
    (pc = "migrate" /\ target_db.created /\ report.completed >= 1) =>
        \A i \in 1..Len(source_db) : TimesIn(target_db.rows, source_db[i]) = 1


----------------------------------------------------------------------------
(* src/main.py: add_contact_to_neighborhood and                            *)
(* remove_contact_from_neighborhood.  The endpoints are plain functions,   *)
(* so the server runs two requests at once, each in a transaction of its   *)
(* own connection.  A statement sees the rows committed when it starts; it *)
(* waits while a row it writes is written by the open transaction of the   *)
(* other request.                                                          *)

Contacts == {1}

Neighborhoods == {1, 2, 3}

Requests == {"a", "b"}

OtherRequest(p) == CHOOSE q \in Requests : q # p

NoRow == [none |-> TRUE]

IdleTxn ==
    [pc |-> "idle", contact_id |-> 0, neighborhood_id |-> 0, is_primary |-> FALSE,
     targets |-> {}, unset |-> {}, upsert |-> NoRow]

RelKey(r) == <<r.contact_id, r.neighborhood_id>>

\* the rows a transaction has written and not yet committed
Written(t) ==
    t.unset \cup (IF t.upsert = NoRow THEN {} ELSE {RelKey(t.upsert)})

InitCrm ==
    /\ IngestionNew
    /\ SchedulerNew
    /\ store = {}
    /\ source_db = <<>>
    /\ target_db = <<>>
    /\ clock = 1
    /\ pc = "crm"
    /\ relations = {}
    /\ txns = [p \in Requests |-> IdleTxn]
    /\ report = NoReport

CrmUnchanged ==
    /\ UNCHANGED <<files, downloaded_files, processed_log, store, clock, pc,
                   existing_listings, all_new_listings, changes, results, idx,
                   marked_content, skipped, log_at_start, run_failed, failed_files,
                   writerVars, schedVars, concVars>>
    /\ UNCHANGED <<source_db, target_db>>

\* add_contact_to_neighborhood up to its first statement: 400 without a
\* neighborhood_id
AddBegin(p) ==
    /\ pc = "crm"
    /\ txns[p].pc = "idle"
    /\ \E c \in Contacts, n \in {0} \cup Neighborhoods, primary \in BOOLEAN :
          IF n = 0
          THEN /\ report' = [op |-> "add", status_code |-> 400]
               /\ UNCHANGED txns
          ELSE /\ txns' = [txns EXCEPT ![p] =
                              [IdleTxn EXCEPT !.pc = IF primary THEN "update" ELSE "insert",
                                              !.contact_id = c, !.neighborhood_id = n,
                                              !.is_primary = primary]]
               /\ UNCHANGED report
    /\ UNCHANGED relations
    /\ CrmUnchanged

\* UPDATE ... SET is_primary = FALSE WHERE contact_id = %s starts: the rows
\* of the contact committed by now are the rows it will write
AddUpdateStart(p) ==
    /\ pc = "crm"
    /\ txns[p].pc = "update"
    /\ txns' = [txns EXCEPT ![p].pc = "updating",
                            ![p].targets = {RelKey(r) : r \in {q \in relations :
                                                q.contact_id = txns[p].contact_id}}]
    /\ UNCHANGED <<relations, report>>
    /\ CrmUnchanged

\* the UPDATE ends, once none of its rows is written by the other request
AddUpdate(p) ==
    /\ pc = "crm"
    /\ txns[p].pc = "updating"
    /\ txns[p].targets \cap Written(txns[OtherRequest(p)]) = {}
    /\ txns' = [txns EXCEPT ![p].pc = "insert",
                            ![p].unset = txns[p].targets \cap {RelKey(r) : r \in relations}]
    /\ UNCHANGED <<relations, report>>
    /\ CrmUnchanged

\* INSERT ... ON CONFLICT (contact_id, neighborhood_id) DO UPDATE SET
\* is_primary: waits for a request that wrote the row of the pair
AddInsert(p) ==
    /\ pc = "crm"
    /\ txns[p].pc = "insert"
    /\ <<txns[p].contact_id, txns[p].neighborhood_id>> \notin Written(txns[OtherRequest(p)])
    /\ txns' = [txns EXCEPT ![p].pc = "commit",
                            ![p].upsert = [contact_id |-> txns[p].contact_id,
                                           neighborhood_id |-> txns[p].neighborhood_id,
                                           is_primary |-> txns[p].is_primary]]
    /\ UNCHANGED <<relations, report>>
    /\ CrmUnchanged

\* the rows after the commit of transaction t
committed(rel, t) ==
    LET cleared == {IF RelKey(r) \in t.unset THEN [r EXCEPT !.is_primary = FALSE] ELSE r :
                        r \in rel}
    IN IF t.upsert = NoRow THEN cleared
       ELSE {r \in cleared : RelKey(r) # RelKey(t.upsert)} \cup {t.upsert}

\* conn.commit() and the return of the row
AddCommit(p) ==
    /\ pc = "crm"
    /\ txns[p].pc = "commit"
    /\ relations' = committed(relations, txns[p])
    /\ txns' = [txns EXCEPT ![p] = IdleTxn]
    /\ report' = [op |-> "add", status_code |-> 200]
    /\ CrmUnchanged

\* a statement of the request raises: the transaction is rolled back and
\* the handler answers 500
AddFails(p) ==
    /\ pc = "crm"
    /\ txns[p].pc \in {"update", "updating", "insert", "commit"}
    /\ txns' = [txns EXCEPT ![p] = IdleTxn]
    /\ report' = [op |-> "add", status_code |-> 500]
    /\ UNCHANGED relations
    /\ CrmUnchanged

\* remove_contact_from_neighborhood: the DELETE and its commit, or 404 when
\* no row was deleted
Remove(p) ==
    /\ pc = "crm"
    /\ txns[p].pc = "idle"
    /\ \E c \in Contacts, n \in Neighborhoods :
          /\ <<c, n>> \notin Written(txns[OtherRequest(p)])
          /\ LET deleted == {r \in relations : RelKey(r) = <<c, n>>}
             IN /\ relations' = relations \ deleted
                /\ report' = [op |-> "remove",
                              status_code |-> IF deleted = {} THEN 404 ELSE 200]
    /\ UNCHANGED txns
    /\ CrmUnchanged

NextCrm ==
    \E p \in Requests :
        \/ AddBegin(p)
        \/ AddUpdateStart(p)
        \/ AddUpdate(p)
        \/ AddInsert(p)
        \/ AddCommit(p)
        \/ AddFails(p)
        \/ Remove(p)

SpecCrm == InitCrm /\ [][NextCrm]_vars

\* C30: after any sequence of add and remove calls, two add calls with
\* is_primary true for one contact interleaving included, each contact has
\* at most one relationship with is_primary true, and each pair of contact
\* and neighborhood has at most one relationship row.
C30_SinglePrimary ==
    pc = "crm" =>
        /\ \A c \in Contacts :
              Cardinality({r \in relations : r.contact_id = c /\ r.is_primary}) <= 1
        /\ \A c \in Contacts, n \in Neighborhoods :
              Cardinality({r \in relations : RelKey(r) = <<c, n>>}) <= 1

=============================================================================
